---- MODULE Spec2Model ----
(***************************************************************************)
(* Model of src/app.py, the "Simple GPS Location Tracker" Streamlit page.  *)
(*                                                                         *)
(* The script runs top to bottom once per render pass.  A pass is split    *)
(* into the blocks of the script, in source order: the sidebar block       *)
(* (manual add, widgets, clear), the capture trigger, the map block and    *)
(* the history panel.  The only state that survives a pass is              *)
(* st.session_state.locations; the other variables are the inputs read     *)
(* and the outputs produced by the pass in progress.                       *)
(*                                                                         *)
(* Python values that may be None are tuples: <<>> is None and <<v>> is    *)
(* the value v.  Text is a sequence of one-character strings.              *)
(***************************************************************************)
EXTENDS Integers, Sequences, FiniteSets, TLC

VARIABLES
    locations,        \* st.session_state.locations
    now,              \* wall clock, whole seconds (floor of time.time())
    pc,               \* block of the script the pass is about to run
    btn,              \* the button whose click started this pass, or "none"
    trigger,          \* why line 124 held in this pass: "none" | "button" | "auto"
    update_interval,  \* the slider value the pass read at line 110
    report,           \* session_state lat/lon/acc/error as read by get_location
    location,         \* what get_location returned in this pass
    manual_lat,       \* the number_input values the pass read at lines 86-87
    manual_lon,
    auto_track,       \* the checkbox value the pass read at line 109
    lookups,          \* what geolocator.reverse did, per call of this pass
    afterSidebar,     \* the history at the end of the sidebar block of this pass
    messages,         \* st.success / st.error / st.info texts of this pass
    mapOut,           \* what the map block produced in this pass
    panelOut,         \* what the history panel produced in this pass
    appended,         \* history of appends since session start / the last clear
    autoRuns          \* auto-triggered get_location calls in the current second

vars == <<locations, now, pc, btn, trigger, update_interval, report, location,
          manual_lat, manual_lon, auto_track, lookups, afterSidebar, messages,
          mapOut, panelOut, appended, autoRuns>>

----------------------------------------------------------------------------
(* Bounds of the model *)

MaxHist == 2          \* a pass that can append starts only below this length
MaxTime == 5          \* last second of the clock
MaxAutoRuns == 2      \* autoRuns saturates here ("this many or more")

(* Program constants *)

SliderMin == 5        \* st.slider("Update Interval (seconds)", 5, 60, 10)
SliderDefault == 10

----------------------------------------------------------------------------
(* Python values *)

NoneVal == <<>>
Num(n) == <<n>>

\* Python truthiness of a number-or-None: None and 0 are falsy.
Truthy(v) == v # NoneVal /\ v[1] # 0

\* Python truthiness of a string-or-None: None and "" are falsy.
TruthyStr(v) == v # NoneVal /\ v[1] # ""

Last(s) == s[Len(s)]

----------------------------------------------------------------------------
(* Inputs of a pass *)

Buttons == {"none", "manual", "clear", "get", "export"}

\* Values of the two number_input widgets: the defaults, and a pair outside
\* the latitude / longitude ranges.
ManualInputs == {<<0, 0>>, <<91, -181>>}

UpdateIntervals == {SliderMin, SliderDefault}

\* What geolocator.reverse does: raises, returns None, or returns a Location.
GeoResults == {"raise", "none", "found"}

\* The address of the Location that the service returns: "A", X
FoundAddress == <<"\"", "A", "\"", ",", " ", "X">>

UnknownLocation ==
    <<"U", "n", "k", "n", "o", "w", "n", " ",
      "l", "o", "c", "a", "t", "i", "o", "n">>

\* session_state 'lat', 'lon', 'acc', 'error' as the geolocation bridge left
\* them: nothing yet, an error (alone, or over an older fix), or a fix.
Report(lat, lon, acc, error) ==
    [lat |-> lat, lon |-> lon, acc |-> acc, error |-> error]

NoReport == Report(NoneVal, NoneVal, NoneVal, NoneVal)

BrowserReports ==
    { NoReport,
      Report(NoneVal, NoneVal, NoneVal, <<"denied">>),
      Report(Num(5), Num(7), Num(3), <<"denied">>),
      Report(Num(5), Num(7), Num(3), NoneVal),
      Report(Num(5), Num(7), NoneVal, NoneVal),
      Report(Num(0), Num(7), Num(3), NoneVal),
      Report(Num(5), Num(0), Num(3), NoneVal) }

----------------------------------------------------------------------------
(* Record construction *)

Digit(d) == <<"0", "1", "2", "3", "4", "5", "6", "7", "8", "9">>[d + 1]

\* datetime.now().strftime(...): the clock as fixed-width text; the model
\* keeps the minutes and seconds fields, "MM:SS".
Strftime(t) ==
    <<Digit((t \div 600) % 6), Digit((t \div 60) % 10), ":",
      Digit((t \div 10) % 6), Digit(t % 10)>>

\* Mutant: a None result is not treated as a failure and leaves no address.
ReverseAddress_NoneUnhandled(geo) ==
    IF geo = "found" THEN <<"\"", "A", "\"", ",", " ", "X">>
    ELSE IF geo = "none" THEN << >>
    ELSE <<"U", "n", "k", "n", "o", "w", "n", " ",
           "l", "o", "c", "a", "t", "i", "o", "n">>

\* try: location = geolocator.reverse(..); address = location.address
\* except: address = "Unknown location"
\* A None result makes location.address raise, which the bare except catches.
ReverseAddress(geo) ==
    IF geo = "found" THEN FoundAddress ELSE UnknownLocation

LocData(lat, lon, acc, address, t) ==
    [latitude |-> lat, longitude |-> lon, accuracy |-> acc,
     address |-> address, timestamp |-> Strftime(t)]

ErrorMessage(error) ==
    IF error = "denied" THEN "Error getting location: denied"
    ELSE "Error getting location"

\* Mutant: the error is shown but the function goes on to the coordinates.
get_location_ErrorNotReturned(ss, geo, t) ==
    [error  |-> IF TruthyStr(ss.error) THEN {ErrorMessage(ss.error[1])} ELSE {},
     result |-> IF Truthy(ss.lat) /\ Truthy(ss.lon)
                THEN <<LocData(ss.lat, ss.lon, ss.acc, ReverseAddress(geo), t)>>
                ELSE NoneVal]

\* get_location(): what it shows with st.error and what it returns.
get_location(ss, geo, t) ==
    IF TruthyStr(ss.error)
    THEN [error |-> {ErrorMessage(ss.error[1])}, result |-> NoneVal]
    ELSE IF Truthy(ss.lat) /\ Truthy(ss.lon)
    THEN [error |-> {},
          result |-> <<LocData(ss.lat, ss.lon, ss.acc, ReverseAddress(geo), t)>>]
    ELSE [error |-> {}, result |-> NoneVal]

\* Mutant: latitude and longitude are swapped.
ManualLocData_Swapped(lat, lon, geo, t) ==
    LocData(Num(lon), Num(lat), Num(0), ReverseAddress(geo), t)

\* The loc_data dict of the "Add Manual Location" handler.
ManualLocData(lat, lon, geo, t) ==
    LocData(Num(lat), Num(lon), Num(0), ReverseAddress(geo), t)

\* Mutant: the new record goes to the front.
ListAppend_Front(list, x) == <<x>> \o list

\* st.session_state.locations.append(x)
ListAppend(list, x) == Append(list, x)

----------------------------------------------------------------------------
(* Map block, lines 131-168 *)

Point(loc) == <<loc.latitude, loc.longitude>>

PopupText(loc) ==
    [time |-> loc.timestamp, coordinates |-> Point(loc), address |-> loc.address]

\* Mutant: the latest style goes to the marker before the last.
Marker_OffByOne(list, i) ==
    [point |-> Point(list[i]),
     popup |-> PopupText(list[i]),
     color |-> IF i = Len(list) - 1 THEN "red" ELSE "blue",
     icon  |-> IF i = Len(list) - 1 THEN "location-arrow" ELSE "info-sign"]

\* The marker of the i-th record (1-based here, enumerate's i + 1).
Marker(list, i) ==
    [point |-> Point(list[i]),
     popup |-> PopupText(list[i]),
     color |-> IF i = Len(list) THEN "red" ELSE "blue",
     icon  |-> IF i = Len(list) THEN "location-arrow" ELSE "info-sign"]

PolyLines(list) ==
    IF Len(list) > 1
    THEN << [points |-> [i \in 1..Len(list) |-> Point(list[i])],
             color |-> "green"] >>
    ELSE << >>

MapRender(list) ==
    IF list # << >>
    THEN [map       |-> TRUE,
          info      |-> {},
          read      |-> list,
          center    |-> <<Point(Last(list))>>,
          markers   |-> [i \in 1..Len(list) |-> Marker(list, i)],
          polylines |-> PolyLines(list)]
    ELSE [map       |-> FALSE,
          info      |-> {"No location data available."},
          read      |-> list,
          center    |-> << >>,
          markers   |-> << >>,
          polylines |-> << >>]

----------------------------------------------------------------------------
(* History panel and export, lines 173-203 *)

\* The keys of a record dict, in the order both handlers write them.
Columns == <<"latitude", "longitude", "accuracy", "address", "timestamp">>

ColumnText(c) ==
    CASE c = "latitude"  -> <<"l", "a", "t", "i", "t", "u", "d", "e">>
      [] c = "longitude" -> <<"l", "o", "n", "g", "i", "t", "u", "d", "e">>
      [] c = "accuracy"  -> <<"a", "c", "c", "u", "r", "a", "c", "y">>
      [] c = "address"   -> <<"a", "d", "d", "r", "e", "s", "s">>
      [] c = "timestamp" -> <<"t", "i", "m", "e", "s", "t", "a", "m", "p">>

\* Mutant: the frame exported is the three-column display frame.
DataFrame_DisplayOnly(list) ==
    [columns |-> <<"timestamp", "latitude", "longitude">>,
     rows    |-> [i \in 1..Len(list) |->
                    <<list[i].timestamp, list[i].latitude, list[i].longitude>>]]

\* pd.DataFrame(list of dicts): the columns are the keys, one row per dict.
DataFrame(list) ==
    [columns |-> Columns,
     rows    |-> [i \in 1..Len(list) |-> [c \in 1..Len(Columns) |-> list[i][Columns[c]]]]]

\* df[['timestamp', 'latitude', 'longitude']] renamed Time, Latitude, Longitude.
DisplayTable(list) ==
    [columns |-> <<"Time", "Latitude", "Longitude">>,
     rows    |-> [i \in 1..Len(list) |->
                    <<list[i].timestamp, list[i].latitude, list[i].longitude>>]]

RECURSIVE NatText(_)
NatText(n) == IF n < 10 THEN <<Digit(n)>> ELSE NatText(n \div 10) \o <<Digit(n % 10)>>

\* A number as decimal text; None (a missing value) as the empty text.
NumText(v) ==
    IF v = NoneVal THEN << >>
    ELSE IF v[1] < 0 THEN <<"-">> \o NatText(-v[1]) ELSE NatText(v[1])

CellText(c, v) == IF c \in {"address", "timestamp"} THEN v ELSE NumText(v)

NeedsQuote(f) == \E i \in 1..Len(f) : f[i] \in {",", "\"", "\n", "\r"}

RECURSIVE DoubleQuotes(_)
DoubleQuotes(f) ==
    IF f = << >> THEN << >>
    ELSE (IF Head(f) = "\"" THEN <<"\"", "\"">> ELSE <<Head(f)>>) \o DoubleQuotes(Tail(f))

\* csv.QUOTE_MINIMAL, the to_csv default.
CsvField(f) ==
    IF NeedsQuote(f) THEN <<"\"">> \o DoubleQuotes(f) \o <<"\"">> ELSE f

RECURSIVE CsvLine(_)
CsvLine(fields) ==
    IF Len(fields) = 1 THEN CsvField(fields[1]) \o <<"\n">>
    ELSE CsvField(Head(fields)) \o <<",">> \o CsvLine(Tail(fields))

RECURSIVE CsvLines(_)
CsvLines(rows) ==
    IF rows = << >> THEN << >> ELSE CsvLine(Head(rows)) \o CsvLines(Tail(rows))

\* df.to_csv(index=False): the header line, then one line per row.
to_csv(df) ==
    CsvLine([c \in 1..Len(df.columns) |-> ColumnText(df.columns[c])])
    \o CsvLines([i \in 1..Len(df.rows) |->
                   [c \in 1..Len(df.columns) |-> CellText(df.columns[c], df.rows[i][c])]])

HistoryPanel(list, export) ==
    IF list # << >>
    THEN [info     |-> {},
          read     |-> list,
          latest   |-> <<Last(list)>>,
          accuracy |-> IF Truthy(Last(list).accuracy) THEN Last(list).accuracy ELSE NoneVal,
          table    |-> <<DisplayTable(list)>>,
          csv      |-> IF export THEN <<to_csv(DataFrame(list))>> ELSE << >>]
    ELSE [info     |-> {"No location history available."},
          read     |-> list,
          latest   |-> << >>,
          accuracy |-> NoneVal,
          table    |-> << >>,
          csv      |-> << >>]

\* Mutant: only the latest record is removed.
ListClear_PopLast(list) ==
    IF list = << >> THEN << >> ELSE SubSeq(list, 1, Len(list) - 1)

\* Mutant: the latest record survives the clear.
ListClear_KeepLatest(list) ==
    IF list = << >> THEN << >> ELSE <<Last(list)>>

\* st.session_state.locations = []
ListClear(list) == << >>

----------------------------------------------------------------------------
(* The session *)

NoAutoRuns == [u \in UpdateIntervals |-> 0]

\* Lines 20-22.  The clock starts one second before the first multiple of
\* the shortest interval.
Init ==
    /\ locations = << >>
    /\ now = SliderMin - 1
    /\ pc = "idle"
    /\ btn = "none"
    /\ trigger = "none"
    /\ update_interval = SliderDefault
    /\ report = NoReport
    /\ location = NoneVal
    /\ manual_lat = 0
    /\ manual_lon = 0
    /\ auto_track = FALSE
    /\ lookups = << >>
    /\ afterSidebar = << >>
    /\ messages = {}
    /\ mapOut = << >>
    /\ panelOut = << >>
    /\ appended = << >>
    /\ autoRuns = NoAutoRuns

\* A rerun of the script: a click on button b, or (b = "none") a widget
\* change or page refresh.  st.button is True only in the rerun its click
\* started, so at most one button is pressed in a pass.  The export button
\* exists only when the previous pass rendered a non-empty history.
BeginPass(b) ==
    /\ pc = "idle"
    /\ b = "export" => locations # << >>
    /\ b # "clear" => Len(locations) < MaxHist
    /\ pc' = "sidebar"
    /\ btn' = b
    /\ trigger' = "none"
    /\ update_interval' = SliderDefault
    /\ report' = NoReport
    /\ location' = NoneVal
    /\ manual_lat' = 0
    /\ manual_lon' = 0
    /\ auto_track' = FALSE
    /\ lookups' = << >>
    /\ afterSidebar' = << >>
    /\ messages' = {}
    /\ mapOut' = << >>
    /\ panelOut' = << >>
    /\ UNCHANGED <<locations, now, appended, autoRuns>>

\* Lines 86-87 and 109-110: the widget values of this pass.
ReadWidgets(lat, lon, a, u) ==
    /\ manual_lat' = lat
    /\ manual_lon' = lon
    /\ auto_track' = a
    /\ update_interval' = u

\* Sidebar with "Add Manual Location" pressed, lines 89-105.
AddManualLocation ==
    /\ pc = "sidebar"
    /\ btn = "manual"
    /\ \E in \in ManualInputs, a \in BOOLEAN, u \in UpdateIntervals, geo \in GeoResults :
          LET loc_data == ManualLocData(in[1], in[2], geo, now) IN
          /\ ReadWidgets(in[1], in[2], a, u)
          /\ lookups' = Append(lookups, geo)
          /\ locations' = ListAppend(locations, loc_data)
          /\ appended' = Append(appended, loc_data)
    /\ afterSidebar' = locations'
    /\ messages' = messages \cup {"Manual location added!"}
    /\ pc' = "capture"
    /\ UNCHANGED <<now, btn, trigger, report, location, mapOut, panelOut, autoRuns>>

\* Sidebar with "Clear Location History" pressed, lines 113-115.
ClearLocationHistory ==
    /\ pc = "sidebar"
    /\ btn = "clear"
    /\ \E in \in ManualInputs, a \in BOOLEAN, u \in UpdateIntervals :
          ReadWidgets(in[1], in[2], a, u)
    /\ locations' = ListClear(locations)
    /\ appended' = << >>
    /\ afterSidebar' = locations'
    /\ messages' = messages \cup {"Location history cleared!"}
    /\ pc' = "capture"
    /\ UNCHANGED <<now, btn, trigger, report, location, lookups, mapOut, panelOut,
                   autoRuns>>

\* Sidebar with neither of its buttons pressed.
SidebarIdle ==
    /\ pc = "sidebar"
    /\ btn \notin {"manual", "clear"}
    /\ \E in \in ManualInputs, a \in BOOLEAN, u \in UpdateIntervals :
          ReadWidgets(in[1], in[2], a, u)
    /\ afterSidebar' = locations
    /\ pc' = "capture"
    /\ UNCHANGED <<locations, now, btn, trigger, report, location, lookups, messages,
                   mapOut, panelOut, appended, autoRuns>>

\* time.time() % update_interval < 1, on the whole-second clock.
AutoDue == auto_track /\ (now % update_interval) < 1

\* Line 124 holds: lines 125-128.
GetCurrentLocation ==
    /\ pc = "capture"
    /\ btn = "get" \/ AutoDue
    /\ trigger' = IF btn = "get" THEN "button" ELSE "auto"
    /\ autoRuns' = IF btn = "get" THEN autoRuns
                   ELSE [autoRuns EXCEPT ![update_interval] =
                            IF @ < MaxAutoRuns THEN @ + 1 ELSE @]
    /\ \E ss \in BrowserReports, geo \in GeoResults :
          LET got == get_location(ss, geo, now) IN
          /\ report' = ss
          /\ location' = got.result
          /\ lookups' = IF ~TruthyStr(ss.error) /\ Truthy(ss.lat) /\ Truthy(ss.lon)
                        THEN Append(lookups, geo) ELSE lookups
          /\ IF got.result # NoneVal
             THEN /\ locations' = ListAppend(locations, got.result[1])
                  /\ appended' = Append(appended, got.result[1])
                  /\ messages' = messages \cup got.error \cup {"Location updated"}
             ELSE /\ messages' = messages \cup got.error
                  /\ UNCHANGED <<locations, appended>>
    /\ pc' = "map"
    /\ UNCHANGED <<now, btn, update_interval, manual_lat, manual_lon, auto_track,
                   afterSidebar, mapOut, panelOut>>

\* Line 124 does not hold.
NoCapture ==
    /\ pc = "capture"
    /\ ~(btn = "get" \/ AutoDue)
    /\ pc' = "map"
    /\ UNCHANGED <<locations, now, btn, trigger, update_interval, report, location,
                   manual_lat, manual_lon, auto_track, lookups, afterSidebar,
                   messages, mapOut, panelOut, appended, autoRuns>>

\* Lines 131-168.
MapBlock ==
    /\ pc = "map"
    /\ mapOut' = <<MapRender(locations)>>
    /\ messages' = messages \cup MapRender(locations).info
    /\ pc' = "panel"
    /\ UNCHANGED <<locations, now, btn, trigger, update_interval, report, location,
                   manual_lat, manual_lon, auto_track, lookups, afterSidebar,
                   panelOut, appended, autoRuns>>

\* Lines 173-203; the pass ends here.
PanelBlock ==
    /\ pc = "panel"
    /\ panelOut' = <<HistoryPanel(locations, btn = "export")>>
    /\ messages' = messages \cup HistoryPanel(locations, btn = "export").info
    /\ pc' = "idle"
    /\ UNCHANGED <<locations, now, btn, trigger, update_interval, report, location,
                   manual_lat, manual_lon, auto_track, lookups, afterSidebar,
                   mapOut, appended, autoRuns>>

\* A second passes.
Tick ==
    /\ now < MaxTime
    /\ now' = now + 1
    /\ autoRuns' = NoAutoRuns
    /\ UNCHANGED <<locations, pc, btn, trigger, update_interval, report, location,
                   manual_lat, manual_lon, auto_track, lookups, afterSidebar,
                   messages, mapOut, panelOut, appended>>

Next ==
    \/ \E b \in Buttons : BeginPass(b)
    \/ AddManualLocation
    \/ ClearLocationHistory
    \/ SidebarIdle
    \/ GetCurrentLocation
    \/ NoCapture
    \/ MapBlock
    \/ PanelBlock
    \/ Tick

Spec == Init /\ [][Next]_vars

----------------------------------------------------------------------------
(* Re-reading the exported text: a reader of comma-delimited text with     *)
(* double-quote quoting, one field, one row at a time.  st is the reader's *)
(* position in a field: at its start, inside a bare field, inside a quoted *)
(* field, or just after a quote seen inside a quoted field.                *)

RECURSIVE ReadField(_, _, _, _)
ReadField(text, i, field, st) ==
    IF i > Len(text)
    THEN [field |-> field, next |-> i, sep |-> "eof"]
    ELSE LET c == text[i] IN
         IF st = "quoted"
         THEN IF c = "\""
              THEN ReadField(text, i + 1, field, "quote")
              ELSE ReadField(text, i + 1, Append(field, c), "quoted")
         ELSE IF c = "\"" /\ st = "quote"
         THEN ReadField(text, i + 1, Append(field, c), "quoted")
         ELSE IF c = "\"" /\ st = "start"
         THEN ReadField(text, i + 1, field, "quoted")
         ELSE IF c \in {",", "\n"}
         THEN [field |-> field, next |-> i + 1, sep |-> c]
         ELSE ReadField(text, i + 1, Append(field, c), "bare")

RECURSIVE ReadRow(_, _, _)
ReadRow(text, i, row) ==
    LET f == ReadField(text, i, << >>, "start") IN
    IF f.sep = ","
    THEN ReadRow(text, f.next, Append(row, f.field))
    ELSE [row |-> Append(row, f.field), next |-> f.next]

RECURSIVE ReadRows(_, _, _)
ReadRows(text, i, rows) ==
    IF i > Len(text)
    THEN rows
    ELSE LET r == ReadRow(text, i, << >>) IN
         ReadRows(text, r.next, Append(rows, r.row))

ParseCsv(text) == ReadRows(text, 1, << >>)

IsPrefix(s, t) == Len(s) <= Len(t) /\ SubSeq(t, 1, Len(s)) = s

\* locations' is locations with exactly one record added at the end.
OneAppended == Len(locations') = Len(locations) + 1 /\ IsPrefix(locations, locations')

FailedLookups == {"raise", "none"}

----------------------------------------------------------------------------
(* Claims *)

\* C1: after any sequence of appends by the manual-entry and geolocation
\* handlers with no clear in between, the history, and what the map block
\* and the history panel read, are exactly the appended records in the
\* order appended; the map centre and the panel's latest record are the
\* last one appended.
C1_AppendOrder ==
    /\ locations = appended
    /\ mapOut # << >> =>
          /\ mapOut[1].read = appended
          /\ Len(mapOut[1].markers) = Len(appended)
          /\ \A i \in 1..Len(appended) : mapOut[1].markers[i].point = Point(appended[i])
          /\ appended # << >> => mapOut[1].center = <<Point(Last(appended))>>
    /\ panelOut # << >> =>
          /\ panelOut[1].read = appended
          /\ appended # << >> => panelOut[1].latest = <<Last(appended)>>

C1_Witness ==
    /\ pc = "idle"
    /\ panelOut # << >>
    /\ Len(appended) = 3
    /\ appended[1].latitude = Num(5)
    /\ appended[2].latitude = Num(91)
    /\ appended[3].latitude = Num(5)
    /\ panelOut[1].latest = <<appended[3]>>

\* C2 as stated: in a pass in which the clear button is pressed, the map
\* block and the history panel read the empty history, whatever else is
\* active in the pass.
C2_ClearThenRenderEmpty ==
    btn = "clear" =>
        /\ mapOut # << >> => mapOut[1].read = << >>
        /\ panelOut # << >> => panelOut[1].read = << >>

\* C2 amended: in a pass in which the clear button is pressed, the history
\* is empty at the end of the sidebar block whatever it held before, and
\* the map block and the history panel read the empty history unless the
\* capture block of the same pass ran and get_location returned a record,
\* in which case they read exactly that one record.
C2_ClearThenOnlyNewCapture ==
    (btn = "clear" /\ pc # "sidebar") =>
        LET expected == IF location # NoneVal THEN <<location[1]>> ELSE << >> IN
        /\ afterSidebar = << >>
        /\ mapOut # << >> => mapOut[1].read = expected
        /\ panelOut # << >> => panelOut[1].read = expected

C2_Witness ==
    /\ btn = "clear"
    /\ pc = "idle"
    /\ trigger = "auto"
    /\ location # NoneVal
    /\ mapOut # << >> /\ mapOut[1].read = <<location[1]>>
    /\ panelOut # << >> /\ panelOut[1].read = <<location[1]>>

\* C3: in both handlers, a reverse lookup that raises or returns no result
\* still ends in exactly one record appended, with address "Unknown
\* location", and the pass goes on to its next block.
C3_GeocodingFailureFallsBack ==
    [][ (Len(lookups') = Len(lookups) + 1 /\ Last(lookups') \in FailedLookups) =>
            /\ OneAppended
            /\ Last(locations').address = UnknownLocation
            /\ pc' \in {"capture", "map"}
            /\ pc' # pc ]_vars

C3_Witness ==
    /\ lookups = <<"raise", "none">>
    /\ btn = "manual"
    /\ trigger = "auto"
    /\ Len(locations) >= 2
    /\ locations[Len(locations) - 1].address = UnknownLocation
    /\ Last(locations).address = UnknownLocation
    /\ pc = "idle"

\* C4: when the capture block runs and the browser reported an error, the
\* error message is shown, get_location returns None and the history is
\* what it was when the capture block started.
C4_AcquisitionErrorNoRecord ==
    (trigger # "none" /\ TruthyStr(report.error)) =>
        /\ ErrorMessage(report.error[1]) \in messages
        /\ location = NoneVal
        /\ locations = afterSidebar

C4_Witness ==
    /\ trigger # "none"
    /\ report = Report(Num(5), Num(7), Num(3), <<"denied">>)
    /\ afterSidebar # << >>
    /\ pc = "idle"

\* C5: the map block shows the placeholder and no map for the empty
\* history; one marker and no polyline for one record; N markers and one
\* polyline through all N points in insertion order for N >= 2; and only
\* the last marker has the latest style, all earlier ones sharing the
\* other style.
C5_MapShape ==
    mapOut # << >> =>
        LET m == mapOut[1]
            N == Len(m.read)
        IN  /\ N = 0 => /\ ~m.map
                        /\ m.info # {}
                        /\ m.markers = << >>
                        /\ m.polylines = << >>
            /\ N >= 1 => /\ m.map
                         /\ m.info = {}
                         /\ Len(m.markers) = N
                         /\ \A i \in 1..N : m.markers[i].point = Point(m.read[i])
                         /\ m.markers[N].color = "red"
                         /\ m.markers[N].icon = "location-arrow"
                         /\ \A i \in 1..(N - 1) :
                                /\ m.markers[i].color = "blue"
                                /\ m.markers[i].icon = "info-sign"
            /\ N = 1 => m.polylines = << >>
            /\ N >= 2 => /\ Len(m.polylines) = 1
                         /\ m.polylines[1].points = [i \in 1..N |-> Point(m.read[i])]

C5_Witness ==
    /\ mapOut # << >>
    /\ Len(mapOut[1].read) = 3
    /\ Len(mapOut[1].polylines) = 1
    /\ mapOut[1].read[1] # mapOut[1].read[3]

\* C6: the exported text, read back, is a header row naming exactly the
\* five record attributes followed by one row per record in insertion
\* order, each carrying the text of all five fields of that record.
C6_ExportRoundTrip ==
    (panelOut # << >> /\ panelOut[1].csv # << >>) =>
        LET list == panelOut[1].read
            parsed == ParseCsv(panelOut[1].csv[1])
        IN  /\ list # << >>
            /\ Len(parsed) = Len(list) + 1
            /\ parsed[1] = [c \in 1..Len(Columns) |-> ColumnText(Columns[c])]
            /\ \A i \in 1..Len(list) :
                  parsed[i + 1] =
                    [c \in 1..Len(Columns) |-> CellText(Columns[c], list[i][Columns[c]])]

C6_Witness ==
    /\ panelOut # << >>
    /\ panelOut[1].csv # << >>
    /\ Len(panelOut[1].read) >= 2
    /\ \E i \in 1..Len(panelOut[1].read) :
          /\ panelOut[1].read[i].address = FoundAddress
          /\ panelOut[1].read[i].accuracy = NoneVal
    /\ \E i \in 1..Len(panelOut[1].read) : panelOut[1].read[i].longitude = Num(-181)

\* C7: every run of the sidebar with "Add Manual Location" pressed appends
\* exactly one record, whose latitude and longitude are the manual input
\* values of the pass, whatever they are, and whose accuracy is 0.
C7_ManualAlwaysAppends ==
    [][ (pc = "sidebar" /\ btn = "manual" /\ pc' # pc) =>
            /\ OneAppended
            /\ Last(locations').latitude = Num(manual_lat')
            /\ Last(locations').longitude = Num(manual_lon')
            /\ Last(locations').accuracy = Num(0) ]_vars

C7_Witness ==
    /\ btn = "manual"
    /\ pc = "capture"
    /\ manual_lat = 91
    /\ manual_lon = -181
    /\ locations # << >>
    /\ Last(locations).latitude = Num(91)
    /\ Last(locations).longitude = Num(-181)

\* C8 as stated: when the capture block runs and the browser reported a
\* position and no error, get_location returns a record with exactly that
\* latitude, longitude and accuracy, and that record is appended once.
C8_SuccessAlwaysRecorded ==
    (/\ trigger # "none"
     /\ ~TruthyStr(report.error)
     /\ report.lat # NoneVal
     /\ report.lon # NoneVal) =>
        /\ location # NoneVal
        /\ location[1].latitude = report.lat
        /\ location[1].longitude = report.lon
        /\ location[1].accuracy = report.acc
        /\ locations = Append(afterSidebar, location[1])

\* C9: every change of the history is one record added at the end, with
\* the stored records and their order untouched, or the reset to the empty
\* history by the clear handler.
C9_AppendOrClearOnly ==
    [][ \/ locations' = locations
        \/ OneAppended
        \/ (locations' = << >> /\ pc = "sidebar" /\ btn = "clear") ]_vars

C9_Witness ==
    /\ btn = "manual"
    /\ trigger = "auto"
    /\ location # NoneVal
    /\ Len(locations) = 3
    /\ locations[2] # locations[3]

\* C10 as stated: an auto-triggered call of get_location happens only in
\* the first second after a multiple of the update interval, and at most
\* once for that interval in that second.
C10_AutoOncePerBoundary ==
    [][ (pc = "capture" /\ trigger' = "auto") =>
            /\ now % update_interval = 0
            /\ autoRuns'[update_interval] <= 1 ]_vars

====
